---- MODULE Spec2Model ----
(***************************************************************************)
(* Model of the SODA engine of Class/lathes_model.py                       *)
(* (SelfOrganisedDirectionAwareDataPartitioning and the functions it       *)
(* calls).                                                                 *)
(*                                                                         *)
(* Numbers.  A float is modelled as an exact rational <<n, d>> in lowest   *)
(* terms with d > 0, or as NaN == <<0, 0>>.  IEEE rules are kept for NaN:  *)
(* it propagates through arithmetic, every ordered comparison with it is   *)
(* false and it is not equal to itself.  Rounding error is not modelled.   *)
(*                                                                         *)
(* Roots.  Where the code takes a square root whose value is only ever     *)
(* compared, scaled or added to another root (grid_trad, grid_angl, both   *)
(* components of hand_dist), the model carries the radicand: "the root of  *)
(* r" is stored as r, and RootLt / SumRootLt compare roots exactly.  A     *)
(* root that is used as a divisor (the row norms) is computed exactly by   *)
(* RSqrt, which is defined only on squares of rationals; the inputs are    *)
(* drawn from vectors with at most one nonzero component so that every     *)
(* norm the code divides by is rational.                                   *)
(***************************************************************************)
EXTENDS Integers, Sequences, FiniteSets, TLC

(* ---------------------------- bounds ----------------------------------- *)
MaxL == 3
MaxW == 2
MaxVal == 2
MaxN == 2
MaxCells == 6
MaxK == 2
MaxBatch == 2
MaxRecruitVal == 1
MaxBoxVal == 4
MaxSamples == 4
MaxCloud == 20
MaxPCs == 2
MaxTrain == 1
MaxTest == 1

(* ------------------------- exact arithmetic ---------------------------- *)
NaN == <<0, 0>>

IsNaN(x) == x[2] = 0

Abs(n) == IF n < 0 THEN -n ELSE n

RECURSIVE GCD(_, _)
GCD(a, b) == IF b = 0 THEN a ELSE GCD(b, a % b)

Rat(n, d) ==
    IF d = 0 THEN CHOOSE v \in {} : TRUE
    ELSE LET g == GCD(Abs(n), Abs(d))
             s == IF d < 0 THEN -1 ELSE 1
         IN  <<(s * n) \div g, (s * d) \div g>>

Num(n) == <<n, 1>>

RAdd(x, y) == IF IsNaN(x) \/ IsNaN(y) THEN NaN
              ELSE Rat(x[1] * y[2] + y[1] * x[2], x[2] * y[2])

RSub(x, y) == IF IsNaN(x) \/ IsNaN(y) THEN NaN
              ELSE Rat(x[1] * y[2] - y[1] * x[2], x[2] * y[2])

RMul(x, y) == IF IsNaN(x) \/ IsNaN(y) THEN NaN
              ELSE Rat(x[1] * y[1], x[2] * y[2])

\* float division: 0/0 is NaN; a nonzero value over zero (an infinity) is
\* outside the model and stops the check if it is ever evaluated
RDiv(x, y) == IF IsNaN(x) \/ IsNaN(y) THEN NaN
              ELSE IF y[1] = 0
                   THEN IF x[1] = 0 THEN NaN ELSE CHOOSE v \in {} : TRUE
                   ELSE Rat(x[1] * y[2], x[2] * y[1])

RLt(x, y) == /\ ~IsNaN(x)
             /\ ~IsNaN(y)
             /\ x[1] * y[2] < y[1] * x[2]

RLe(x, y) == /\ ~IsNaN(x)
             /\ ~IsNaN(y)
             /\ x[1] * y[2] <= y[1] * x[2]

RGt(x, y) == RLt(y, x)

REq(x, y) == /\ ~IsNaN(x)
             /\ ~IsNaN(y)
             /\ x = y

RSq(x) == RMul(x, x)

ISqrt(n) == CHOOSE s \in 0..n : s * s = n

\* exact square root of the square of a rational (used for the row norms)
RSqrt(x) == IF IsNaN(x) \/ x[1] < 0 THEN NaN
            ELSE <<ISqrt(x[1]), ISqrt(x[2])>>

\* a sequence given as a function, with every element computed once
Tup(f) == f \o <<>>

RECURSIVE SumSeq(_)
SumSeq(s) == IF Len(s) = 0 THEN Num(0) ELSE RAdd(SumSeq(SubSeq(s, 1, Len(s) - 1)), s[Len(s)])

\* sum of the squared components of a vector
SqNorm(v) == SumSeq(Tup([j \in 1..Len(v) |-> RSq(v[j])]))

\* column-wise mean of a matrix with Wd columns (numpy mean over axis 0);
\* with no rows every column mean is 0/0
ColMean(M, Wd) == Tup([j \in 1..Wd |-> RDiv(SumSeq(Tup([i \in 1..Len(M) |-> M[i][j]])), Num(Len(M)))])

(* ------------------------------ roots ---------------------------------- *)
\* np.sqrt(r): NaN for a NaN or negative radicand; carried as the radicand
SqrtOf(r) == IF IsNaN(r) \/ r[1] < 0 THEN NaN ELSE r

\* variant of RootDiv: the division by N is taken inside the root
RootDivInside(r, n) == RDiv(r, Num(n))

\* (root of r) / N, carried as the radicand r / N^2
RootDiv(r, n) == RDiv(r, Num(n * n))

\* a < b for two roots carried as radicands
RootLt(a, b) == RLt(a, b)

\* a < n * b for two roots carried as radicands
RootLtTimes(a, n, b) == RLt(a, RMul(Num(n * n), b))

\* a root is strictly positive iff its radicand is
RootPos(a) == RGt(a, Num(0))

\* sqrt(s[1]) + sqrt(s[2]) < sqrt(t[1]) + sqrt(t[2]), decided exactly by
\* squaring twice; false as soon as one of the four terms is NaN
SumRootLt(s, t) ==
    IF IsNaN(s[1]) \/ IsNaN(s[2]) \/ IsNaN(t[1]) \/ IsNaN(t[2]) THEN FALSE
    ELSE LET P == RMul(Num(4), RMul(s[1], s[2]))
             Q == RMul(Num(4), RMul(t[1], t[2]))
             K == RSub(RAdd(t[1], t[2]), RAdd(s[1], s[2]))
             M == RSub(RAdd(P, Q), RSq(K))
             PQ4 == RMul(Num(4), RMul(P, Q))
         IN  IF RGt(K, Num(0))
             THEN \/ RLe(P, Q)
                  \/ RLt(M, Num(0))
                  \/ RLt(RSq(M), PQ4)
             ELSE /\ RLt(P, Q)
                  /\ RGt(M, Num(0))
                  /\ RGt(RSq(M), PQ4)

(* ------------------------------ inputs --------------------------------- *)
\* rows of width Wd with at most one nonzero component, an integer of
\* -1..MaxVal
Vectors(Wd) == {v \in [1..Wd -> {Num(a) : a \in -1..MaxVal}] :
                   Cardinality({j \in 1..Wd : v[j] # Num(0)}) <= 1}

\* the matrices of at most MaxL rows and MaxCells entries
Matrices(Wd) == UNION {[1..n -> Vectors(Wd)] : n \in {m \in 0..MaxL : m * Wd <= MaxCells}}

(* ----------------------------- grid_set -------------------------------- *)
\* Xnorm: the Euclidean norm of every row
RowNorms(M) == Tup([i \in 1..Len(M) |-> RSqrt(SqNorm(M[i]))])

\* new_data before the NaN guard: every row divided by its norm
Normalized(M, Wd) ==
    LET Xnorm == RowNorms(M)
    IN  Tup([i \in 1..Len(M) |-> Tup([j \in 1..Wd |-> RDiv(M[i][j], Xnorm[i])])])

\* np.argwhere(np.isnan(new_data)): the 0-based (row, column) pairs of the
\* NaN entries, in row-major order
RECURSIVE NanScan(_, _, _)
NanScan(M, Wd, p) ==
    IF p >= Len(M) * Wd THEN <<>>
    ELSE LET r == p \div Wd
             c == p % Wd
         IN  (IF IsNaN(M[r + 1][c + 1]) THEN <<(<<r, c>>)>> ELSE <<>>) \o NanScan(M, Wd, p + 1)

ArgwhereNaN(M, Wd) == IF Wd = 0 THEN <<>> ELSE NanScan(M, Wd, 0)

\* new_data[tuple(seq[::])] = 1 raises IndexError: the k pairs of seq are
\* used as k index arrays, one per axis of a 2-axis matrix
NanGuardRaises(M, Wd, seq) ==
    \/ Len(seq) > 2
    \/ /\ Len(seq) = 1
       /\ \E t \in 1..2 : seq[1][t] >= Len(M)
    \/ /\ Len(seq) = 2
       /\ \/ \E t \in 1..2 : seq[1][t] >= Len(M)
          \/ \E t \in 1..2 : seq[2][t] >= Wd

\* the entries new_data[tuple(seq[::])] = 1 writes (0-based pairs):
\* one pair selects whole rows seq[1][1] and seq[1][2]; two pairs select
\* the entries (seq[1][1], seq[2][1]) and (seq[1][2], seq[2][2])
NanGuardTargets(Wd, seq) ==
    IF Len(seq) = 1 THEN {<<seq[1][t], c>> : t \in 1..2, c \in 0..(Wd - 1)}
    ELSE IF Len(seq) = 2 THEN {<<seq[1][1], seq[2][1]>>, <<seq[1][2], seq[2][2]>>}
    ELSE {}

NanGuard(M, Wd, seq) ==
    LET targets == NanGuardTargets(Wd, seq)
    IN  Tup([i \in 1..Len(M) |-> Tup([j \in 1..Wd |->
            IF <<i - 1, j - 1>> \in targets THEN Num(1) ELSE M[i][j]])])

GridX1(M) == RDiv(SumSeq(Tup([i \in 1..Len(M) |-> SqNorm(M[i])])), Num(Len(M)))

\* variant of GridTrad: the mean vector is summed without being squared
GridTradUnsquaredMean(M, Wd, n) ==
    RootDiv(SqrtOf(RMul(Num(2), RSub(GridX1(M), SumSeq(ColMean(M, Wd))))), n)

GridTrad(M, Wd, n) ==
    RootDiv(SqrtOf(RMul(Num(2), RSub(GridX1(M), SqNorm(ColMean(M, Wd))))), n)

GridAngl(ND, Wd, n) ==
    RootDiv(SqrtOf(RSub(Num(1), SqNorm(ColMean(ND, Wd)))), n)

(* ---------------------------- pi_calculator ----------------------------- *)
\* sum(sum(np.power(Uniquesample,2)))/UN raises TypeError when there are no
\* rows: the inner sum is then the int 0, which the outer sum cannot iterate
PiRaises(M) == Len(M) = 0

\* uspi for mode == 'euclidean'
PiEuclidean(M, Wd) ==
    LET AA1 == ColMean(M, Wd)
        X1e == RDiv(SumSeq(Tup([i \in 1..Len(M) |-> SqNorm(M[i])])), Num(Len(M)))
        DT1 == RSub(X1e, SqNorm(AA1))
    IN  Tup([i \in 1..Len(M) |-> RAdd(SqNorm(Tup([j \in 1..Wd |-> RSub(M[i][j], AA1[j])])), DT1)])

\* uspi for mode == 'cosine': the rows are normalized again, without NaN guard
PiCosine(M, Wd) ==
    LET U1 == Normalized(M, Wd)
        AA2 == ColMean(U1, Wd)
        DT2 == RSub(Num(1), SqNorm(AA2))
    IN  Tup([i \in 1..Len(M) |-> RAdd(SqNorm(Tup([j \in 1..Wd |-> RSub(U1[i][j], AA2[j])])), DT2)])

(* ----------------------- Globaldensity_Calculator ---------------------- *)
Density(uspi) ==
    LET sum_uspi == SumSeq(uspi)
    IN  Tup([i \in 1..Len(uspi) |-> RDiv(uspi[i], sum_uspi)])

GlobalDensity(M, Wd) ==
    LET D1 == Density(PiEuclidean(M, Wd))
        D2 == Density(PiCosine(M, Wd))
    IN  Tup([i \in 1..Len(M) |-> RAdd(D2[i], D1[i])])

\* the order numpy sorts floats by: NaN sorts after every number
SortLt(a, b) == \/ RLt(a, b)
                \/ (IsNaN(b) /\ ~IsNaN(a))

Perms(n) == {p \in [1..n -> 1..n] : \A a, b \in 1..n : a # b => p[a] # p[b]}

\* the ascending orders of the indices of G
Ascending(G) == {p \in Perms(Len(G)) : \A k \in 1..(Len(G) - 1) : ~SortLt(G[p[k + 1]], G[p[k]])}

\* GD.argsort() with the default kind (quicksort, not stable).  An array
\* holding a NaN is sorted by the scalar code, which for the at most 16
\* elements modelled is an insertion sort: equal keys, and the NaNs, keep
\* their input order.  An array without NaN may be sorted by a vectorized
\* network, and the order it gives to equal keys is any order.
Argsort(G) ==
    IF \E k \in 1..Len(G) : IsNaN(G[k])
    THEN {p \in Ascending(G) : \A k \in 1..(Len(G) - 1) :
              SortLt(G[p[k]], G[p[k + 1]]) \/ p[k] < p[k + 1]}
    ELSE Ascending(G)

\* variant of Reverse: the ascending order is kept
ReverseOmitted(s) == s

\* [::-1]
Reverse(s) == Tup([k \in 1..Len(s) |-> s[Len(s) + 1 - k]])

(* ------------------------------ hand_dist ------------------------------ *)
\* with no columns the inner loop never runs, dot and the denominators stay
\* the Python int 0 and the division raises ZeroDivisionError
HandDistRaises(Wd, XB) == Wd = 0 /\ Len(XB) > 0

\* variant of HandDistRow: the dot product is not divided by the norms
HandDistRowUnnormalized(a, b) ==
    LET Wd == Len(a)
        aux == SumSeq(Tup([j \in 1..Wd |-> RSq(RSub(a[j], b[j]))]))
        dot == SumSeq(Tup([j \in 1..Wd |-> RMul(a[j], b[j])]))
        omc == RSub(Num(1), dot)
    IN  <<aux, IF IsNaN(omc) THEN NaN ELSE <<Abs(omc[1]), omc[2]>> >>

\* one row of distance: <<Euclidean, angular>>, both carried as radicands:
\* distance[i,0] = aux**.5 and distance[i,1] = ((1 - cos)**2)**.25
HandDistRow(a, b) ==
    LET Wd == Len(a)
        aux == SumSeq(Tup([j \in 1..Wd |-> RSq(RSub(a[j], b[j]))]))
        dot == SumSeq(Tup([j \in 1..Wd |-> RMul(a[j], b[j])]))
        denom_a == SqNorm(a)
        denom_b == SqNorm(b)
        cos == RDiv(dot, RMul(RSqrt(denom_a), RSqrt(denom_b)))
        omc == RSub(Num(1), cos)
    IN  <<aux, IF IsNaN(omc) THEN NaN ELSE <<Abs(omc[1]), omc[2]>> >>

hand_dist(XA, XB) == Tup([k \in 1..Len(XB) |-> HandDistRow(XA, XB[k])])

(* ------------------------------- state --------------------------------- *)
VARIABLES
    data, W, N,                 \* Input['StaticData'] (L x W), Input['GridSize']
    pc,                         \* the statement the call is at
    raised,                     \* the exception that ended the call, or "none"
    ran,                        \* the stages entered so far, in order
    X1, AvD1, AvD2, new_data,   \* grid_set
    grid_trad, grid_angl,
    GD, Uniquesample,           \* Globaldensity_Calculator (sorted)
    index,
    BOX, BOX_miu, BOX_X,        \* chessboard_division_njit, rows [:contador]
    BOX_S, BOXMT, NB, contador,
    i,                          \* loop index of the running stage (0-based)
    Centers, ModeNumber,        \* ChessBoard_PeakIdentification_njit
    B,                          \* cloud_member_recruitment_njit
    IDX,                        \* Output['IDX']
    SystemParams,               \* Output['SystemParams']
    returned,                   \* the values returned by the completed calls of
                                \* cloud_member_recruitment_njit made on its own
    hd_XA, hd_XB, hd_distance,  \* hand_dist called on its own: its arguments
                                \* (XA is the row XA[0,:]) and what it returned
    target_, percent_,          \* _grouping_algorithm: what it reads besides
                                \* SODA_IDX_ (the variable IDX), and what it
    classifiers_label_,         \* stores
    GA_results_,
    already_fitted_,            \* LathesModel: the attributes of one instance
    already_tested_,
    one_class_,
    N_PCs_, granularity_,
    clf,                        \* the classifier: what it was fitted on
    X_selected_,                \* the training set the selected features are of
    pca,                        \* pca and pca_scaler: what they were fitted on
    X_test_selected_,
    X_test_projected_,
    y_pred,                     \* what the latest call returned
    call,                       \* the latest method call
    did,                        \* the stages the latest call ran
    outcome                     \* "returned" or the exception the latest call raised

vars == <<data, W, N, pc, raised, ran, X1, AvD1, AvD2, new_data, grid_trad,
          grid_angl, GD, Uniquesample, index, BOX, BOX_miu, BOX_X, BOX_S,
          BOXMT, NB, contador, i, Centers, ModeNumber, B, IDX, SystemParams,
          returned, hd_XA, hd_XB, hd_distance, target_, percent_,
          classifiers_label_, GA_results_, already_fitted_, already_tested_, one_class_, N_PCs_,
          granularity_, clf, X_selected_, pca, X_test_selected_,
          X_test_projected_, y_pred, call, did, outcome>>

gridVars == <<X1, AvD1, AvD2, new_data, grid_trad, grid_angl>>
densVars == <<GD, Uniquesample, index>>
boxVars == <<BOX, BOX_miu, BOX_X, BOX_S, BOXMT, NB, contador>>
peakVars == <<Centers, ModeNumber>>
inVars == <<data, W, N>>
\* what a call of SelfOrganisedDirectionAwareDataPartitioning does not touch
lathesVars == <<already_fitted_, already_tested_, one_class_, N_PCs_,
                granularity_, clf, X_selected_, pca, X_test_selected_,
                X_test_projected_, y_pred, call, did, outcome>>
handVars == <<hd_XA, hd_XB, hd_distance>>
groupVars == <<target_, percent_, classifiers_label_, GA_results_>>
outerVars == <<returned, handVars, groupVars, lathesVars>>

L == Len(data)

(* LathesModel: the values of its attributes.  A fitted object is modelled
   by what it was fitted on, a data set by its identity (1, 2, ...); 0 and
   the records of zeros stand for an attribute that does not exist yet. *)
NoPca == [X |-> 0, N_PCs |-> 0]
NoFit == [pca |-> NoPca, granularity |-> 0]
NoSelection == [X |-> 0, train |-> 0]
NoProjection == [sel |-> NoSelection, pca |-> NoPca]
None == [clf |-> NoFit, proj |-> NoProjection]

\* GA_results_ before _grouping_algorithm has run
NoResults == [Data_Clouds |-> 0, Good_Tools_Groups |-> 0, Worn_Tools_Groups |-> 0, Samples |-> 0]

\* _grouping_algorithm is not called: percent_ has its default (line 308)
NoGrouping ==
    /\ target_ = <<>>
    /\ percent_ = 50
    /\ classifiers_label_ = <<>>
    /\ GA_results_ = NoResults

\* hand_dist is not called on its own
NoHandDist == hd_XA = <<>> /\ hd_XB = <<>> /\ hd_distance = <<>>

\* __init__ (lines 398-412) with the default arguments
LathesInit ==
    /\ N_PCs_ = 1
    /\ granularity_ = 1
    /\ clf = NoFit
    /\ already_fitted_ = FALSE
    /\ already_tested_ = FALSE
    /\ one_class_ = FALSE
    /\ X_selected_ = 0
    /\ pca = NoPca
    /\ X_test_selected_ = NoSelection
    /\ X_test_projected_ = NoProjection
    /\ y_pred = None
    /\ call = "__init__"
    /\ did = {}
    /\ outcome = "returned"

Init ==
    /\ W \in 0..MaxW
    /\ data \in Matrices(W)
    /\ N \in 1..MaxN
    /\ pc = "grid_set"
    /\ raised = "none"
    /\ ran = <<>>
    /\ X1 = NaN /\ AvD1 = <<>> /\ AvD2 = <<>> /\ new_data = <<>>
    /\ grid_trad = NaN /\ grid_angl = NaN
    /\ GD = <<>> /\ Uniquesample = <<>> /\ index = <<>>
    /\ BOX = <<>> /\ BOX_miu = <<>> /\ BOX_X = <<>> /\ BOX_S = <<>> /\ BOXMT = <<>>
    /\ NB = 0 /\ contador = 0
    /\ i = 0
    /\ Centers = <<>> /\ ModeNumber = 0
    /\ B = <<>>
    /\ IDX = <<>>
    /\ SystemParams = <<>>
    /\ returned = <<>>
    /\ NoGrouping
    /\ NoHandDist
    /\ LathesInit

\* an exception leaves the call: nothing is returned
Raise(e) == /\ pc' = "raised"
            /\ raised' = e

(* ----------------------------- the call -------------------------------- *)
\* X1, AvD1, AvD2, grid_trad, grid_angl = grid_set(data, N)
GridSet ==
    /\ pc = "grid_set"
    /\ ran' = Append(ran, "grid_set")
    /\ LET nd == Normalized(data, W)
           seq == ArgwhereNaN(nd, W)
       IN  IF NanGuardRaises(nd, W, seq)
           THEN /\ Raise("IndexError")
                /\ UNCHANGED gridVars
           ELSE LET fixed == NanGuard(nd, W, seq)
                IN  /\ new_data' = fixed
                    /\ X1' = GridX1(data)
                    /\ AvD1' = ColMean(data, W)
                    /\ AvD2' = ColMean(fixed, W)
                    /\ grid_trad' = GridTrad(data, W, N)
                    /\ grid_angl' = GridAngl(fixed, W, N)
                    /\ pc' = "density"
                    /\ UNCHANGED raised
    /\ UNCHANGED <<outerVars, inVars, densVars, boxVars, peakVars, i, B, IDX, SystemParams>>

\* GD, D1, D2, Uniquesample = Globaldensity_Calculator(data, distancetype)
GlobaldensityCalculator ==
    /\ pc = "density"
    /\ ran' = Append(ran, "density")
    /\ IF PiRaises(data)
       THEN /\ Raise("TypeError")
            /\ UNCHANGED densVars
       ELSE LET G == GlobalDensity(data, W)
            IN  \E asc \in Argsort(G) :
                    LET idx == Reverse(asc)
                    IN  /\ index' = idx
                        /\ GD' = Tup([k \in 1..L |-> G[idx[k]]])
                        /\ Uniquesample' = Tup([k \in 1..L |-> data[idx[k]]])
                        /\ pc' = "chessboard"
                        /\ UNCHANGED raised
    /\ UNCHANGED <<outerVars, inVars, gridVars, boxVars, peakVars, i, B, IDX, SystemParams>>

(* chessboard_division_njit *)
\* variant of Candidates: one threshold met is enough
RECURSIVE CandidatesEither(_, _, _, _)
CandidatesEither(distance, gt, ga, j) ==
    IF j > Len(distance) THEN <<>>
    ELSE (IF RootLt(distance[j][1], gt) \/ RootLt(distance[j][2], ga) THEN <<j>> ELSE <<>>)
         \o CandidatesEither(distance, gt, ga, j + 1)

\* Condition 1: the (1-based) boxes whose mean is nearer than both thresholds,
\* in increasing index order
RECURSIVE Candidates(_, _, _, _)
Candidates(distance, gt, ga, j) ==
    IF j > Len(distance) THEN <<>>
    ELSE (IF RootLt(distance[j][1], gt) /\ RootLt(distance[j][2], ga) THEN <<j>> ELSE <<>>)
         \o Candidates(distance, gt, ga, j + 1)

\* DIS: distance[S,0]/grid_trad + distance[S,1]/grid_angl for S in SQ, each
\* a sum of two roots carried as the pair of their radicands
NormalizedDis(distance, SQ, gt, ga) ==
    Tup([k \in 1..Len(SQ) |-> <<RDiv(distance[SQ[k]][1], gt), RDiv(distance[SQ[k]][2], ga)>>])

\* variant of MinScan: "<=" instead of "<", the last minimum wins
RECURSIVE MinScanLast(_, _, _)
MinScanLast(d, ii, b) ==
    IF ii > Len(d) THEN b
    ELSE IF ~SumRootLt(d[b], d[ii]) THEN MinScanLast(d, ii + 1, ii)
    ELSE MinScanLast(d, ii + 1, b)

\* the scan "if d[ii] < mini: mini = d[ii]; b = ii" from position ii on, the
\* running minimum being at position b (1-based positions)
RECURSIVE MinScan(_, _, _)
MinScan(d, ii, b) ==
    IF ii > Len(d) THEN b
    ELSE IF SumRootLt(d[ii], d[b]) THEN MinScan(d, ii + 1, ii)
    ELSE MinScan(d, ii + 1, b)

\* variant of AbsorbCount: the count of the absorbing box is not incremented
AbsorbCountStale(S) == S

\* Eq. 21b: BOX_S[SQ[b]] = BOX_S[SQ[b]] + 1
AbsorbCount(S) == S + 1

\* variant of IncMean: the new sample is not divided by the count
IncMeanUndivided(S, old, new) == RAdd(RMul(RDiv(Num(S - 1), Num(S)), old), new)

\* Eq. 21a: (S-1)/S*old + new/S, S being the count after the increment
IncMean(S, old, new) == RAdd(RMul(RDiv(Num(S - 1), Num(S)), old), RDiv(new, Num(S)))

\* variant of AddMass: the density of the absorbed sample is dropped
KeepMass(m, g) == m

\* Eq. 21c: BOXMT[SQ[b]] + MMtypicality[i]
AddMass(m, g) == RAdd(m, g)

\* variant of SetRow: the value is written to every row
SetEveryRow(T, q, v) == Tup([k \in 1..Len(T) |-> v])

\* T[SQ[b]] = v: one row of a box table is overwritten
SetRow(T, q, v) == [T EXCEPT ![q] = v]

\* lines 147-163: the first sorted sample seeds box 0
ChessboardSeed ==
    /\ pc = "chessboard"
    /\ ran' = Append(ran, "chessboard")
    /\ BOX' = <<Uniquesample[1]>>
    /\ BOX_miu' = <<Uniquesample[1]>>
    /\ BOX_S' = <<1>>
    /\ BOX_X' = <<SqNorm(Uniquesample[1])>>
    /\ BOXMT' = <<GD[1]>>
    /\ NB' = 1
    /\ contador' = 1
    /\ i' = 1
    /\ pc' = "chessboard_loop"
    /\ UNCHANGED <<outerVars, inVars, gridVars, densVars, peakVars, raised, B, IDX, SystemParams>>

\* lines 165-201: one iteration of "for i in range(W,L)"
ChessboardStep ==
    /\ pc = "chessboard_loop"
    /\ i < L
    /\ LET x == Uniquesample[i + 1]
       IN  IF HandDistRaises(W, BOX_miu)
           THEN /\ Raise("ZeroDivisionError")
                /\ UNCHANGED <<boxVars, i>>
           ELSE LET distance == hand_dist(x, BOX_miu)
                    SQ == Candidates(distance, grid_trad, grid_angl, 1)
                IN  /\ IF Len(SQ) = 0
                       THEN /\ BOX' = Append(BOX, x)
                            /\ BOX_miu' = Append(BOX_miu, x)
                            /\ BOX_S' = Append(BOX_S, 1)
                            /\ BOX_X' = Append(BOX_X, SqNorm(x))
                            /\ BOXMT' = Append(BOXMT, GD[i + 1])
                            /\ NB' = NB + 1
                            /\ contador' = contador + 1
                       ELSE LET DIS == NormalizedDis(distance, SQ, grid_trad, grid_angl)
                                b == MinScan(DIS, 2, 1)
                                q == SQ[b]
                                S == AbsorbCount(BOX_S[q])
                            IN  /\ BOX_S' = SetRow(BOX_S, q, S)
                                /\ BOX_miu' = SetRow(BOX_miu, q,
                                       Tup([j \in 1..W |-> IncMean(S, BOX_miu[q][j], x[j])]))
                                /\ BOX_X' = SetRow(BOX_X, q, IncMean(S, BOX_X[q], SqNorm(x)))
                                /\ BOXMT' = SetRow(BOXMT, q, AddMass(BOXMT[q], GD[i + 1]))
                                /\ UNCHANGED <<BOX, NB, contador>>
                    /\ i' = i + 1
                    /\ UNCHANGED <<pc, raised>>
    /\ UNCHANGED <<outerVars, inVars, gridVars, densVars, peakVars, ran, B, IDX, SystemParams>>

\* lines 203-208: the loop is over, the filled rows are returned
ChessboardReturn ==
    /\ pc = "chessboard_loop"
    /\ i = L
    /\ pc' = "peaks"
    /\ i' = 0
    /\ UNCHANGED <<outerVars, inVars, gridVars, densVars, boxVars, peakVars, raised, ran, B, IDX, SystemParams>>

(* ChessBoard_PeakIdentification_njit *)
\* Condition 2: the (1-based) boxes within n = 2 times both thresholds
RECURSIVE Neighbours(_, _, _, _)
Neighbours(distance, gt, ga, j) ==
    IF j > Len(distance) THEN <<>>
    ELSE (IF RootLtTimes(distance[j][1], 2, gt) /\ RootLtTimes(distance[j][2], 2, ga)
          THEN <<j>> ELSE <<>>)
         \o Neighbours(distance, gt, ga, j + 1)

\* Python's max over a non-empty list: the first item is kept until a later
\* item compares greater
RECURSIVE PyMaxFrom(_, _, _)
PyMaxFrom(s, k, m) ==
    IF k > Len(s) THEN m
    ELSE IF RGt(s[k], m) THEN PyMaxFrom(s, k + 1, s[k])
    ELSE PyMaxFrom(s, k + 1, m)

PyMax(s) == PyMaxFrom(s, 2, s[1])

\* variant of NextModeNumber: the neighbourhood factor n = 2 is added
NextModeNumberByN(m) == m + 2

\* ModeNumber = ModeNumber + 1
NextModeNumber(m) == m + 1

\* lines 220-232: one iteration of "for i in range(L)" over the boxes
PeakStep ==
    /\ pc = "peaks"
    /\ i < Len(BOX_miu)
    /\ ran' = IF i = 0 THEN Append(ran, "peaks") ELSE ran
    /\ IF HandDistRaises(W, BOX_miu)
       THEN /\ Raise("ZeroDivisionError")
            /\ UNCHANGED <<peakVars, i>>
       ELSE LET distance == hand_dist(BOX_miu[i + 1], BOX_miu)
                seq == Neighbours(distance, grid_trad, grid_angl, 1)
                Chessblocak_typicality == Tup([k \in 1..Len(seq) |-> BOXMT[seq[k]]])
            IN  IF Len(seq) = 0
                THEN /\ Raise("ValueError")
                     /\ UNCHANGED <<peakVars, i>>
                ELSE /\ IF REq(PyMax(Chessblocak_typicality), BOXMT[i + 1])
                        THEN /\ Centers' = Append(Centers, BOX_miu[i + 1])
                             /\ ModeNumber' = NextModeNumber(ModeNumber)
                        ELSE UNCHANGED peakVars
                     /\ i' = i + 1
                     /\ UNCHANGED <<pc, raised>>
    /\ UNCHANGED <<outerVars, inVars, gridVars, densVars, boxVars, B, IDX, SystemParams>>

\* line 233
PeakReturn ==
    /\ pc = "peaks"
    /\ i = Len(BOX_miu)
    /\ pc' = "recruit"
    /\ i' = 0
    /\ UNCHANGED <<outerVars, inVars, gridVars, densVars, boxVars, peakVars, raised, ran, B, IDX, SystemParams>>

(* cloud_member_recruitment_njit *)
\* np.array(Center) of an empty list has one axis, and "L, W = XB.shape" in
\* hand_dist raises ValueError
NoCenterRaises(C) == Len(C) = 0

\* variant of RecruitScan: "<=" instead of "<", the last minimum wins
RECURSIVE RecruitScanLast(_, _, _)
RecruitScanLast(dist3, jj, mini_idx) ==
    IF jj > Len(dist3) THEN mini_idx
    ELSE IF ~SumRootLt(dist3[mini_idx], dist3[jj]) THEN RecruitScanLast(dist3, jj + 1, jj)
    ELSE RecruitScanLast(dist3, jj + 1, mini_idx)

\* Condition 4: the scan "if dist3[jj] < mini: mini = dist3[jj]; mini_idx = jj"
\* from position jj on, the running minimum being at mini_idx (1-based)
RECURSIVE RecruitScan(_, _, _)
RecruitScan(dist3, jj, mini_idx) ==
    IF jj > Len(dist3) THEN mini_idx
    ELSE IF SumRootLt(dist3[jj], dist3[mini_idx]) THEN RecruitScan(dist3, jj + 1, jj)
    ELSE RecruitScan(dist3, jj + 1, mini_idx)

\* B[ii]: the 0-based index the scan ends on; dist3 = np.sum(distance, axis=1)
\* is the sum of the two roots of a row of distance
NearestCenter(x, C) == RecruitScan(hand_dist(x, C), 2, 1) - 1

\* the matrix cloud_member_recruitment_njit is called on (line 274)
RecruitSamples == data

\* variant of RecruitRow: the rows are read from the last one backwards
RecruitRowBackwards(U, ii) == U[Len(U) - ii]

\* Uniquesample[ii,:] (ii is 0-based)
RecruitRow(U, ii) == U[ii + 1]

\* lines 246-257: one iteration of "for ii in range(L)" over the input rows
RecruitStep ==
    /\ pc = "recruit"
    /\ i < L
    /\ ran' = IF i = 0 THEN Append(ran, "recruit") ELSE ran
    /\ IF NoCenterRaises(Centers)
       THEN /\ Raise("ValueError")
            /\ UNCHANGED <<B, i>>
       ELSE IF HandDistRaises(W, Centers)
       THEN /\ Raise("ZeroDivisionError")
            /\ UNCHANGED <<B, i>>
       ELSE /\ B' = Append(B, NearestCenter(RecruitRow(RecruitSamples, i), Centers))
            /\ i' = i + 1
            /\ UNCHANGED <<pc, raised>>
    /\ UNCHANGED <<outerVars, inVars, gridVars, densVars, boxVars, peakVars, IDX, SystemParams>>

\* lines 277-285: the dictionary Boxparameter, as a record
Boxparameter ==
    [BOX |-> BOX, BOX_miu |-> BOX_miu, BOX_S |-> BOX_S, NB |-> NB, XM |-> X1,
     L |-> L, AvM |-> AvD1, AvA |-> AvD2, GridSize |-> N]

\* lines 258 and 277-291: Output['C'] is Centers,
\* Output['IDX'] = list(IDX.astype(int)+1), Output['SystemParams'] = Boxparameter
Return ==
    /\ pc = "recruit"
    /\ i = L
    /\ IDX' = Tup([k \in 1..Len(B) |-> B[k] + 1])
    /\ SystemParams' = Boxparameter
    /\ pc' = "done"
    /\ UNCHANGED <<outerVars, inVars, gridVars, densVars, boxVars, peakVars, raised, ran, B, i>>

Next ==
    \/ GridSet
    \/ GlobaldensityCalculator
    \/ ChessboardSeed
    \/ ChessboardStep
    \/ ChessboardReturn
    \/ PeakStep
    \/ PeakReturn
    \/ RecruitStep
    \/ Return

Spec == Init /\ [][Next]_vars

(* ------------- cloud_member_recruitment_njit called on its own ---------- *)
\* the whole function: the vector B of 0-based center indices
cloud_member_recruitment_njit(Center_samples, U) ==
    Tup([k \in 1..Len(U) |-> NearestCenter(RecruitRow(U, k - 1), Center_samples)])

\* the center lists and batches a caller supplies: at most MaxK centers and
\* MaxBatch samples of the same width with components up to MaxRecruitVal,
\* at most MaxL + 1 rows and MaxCells entries in all
RecruitVectors(Wd) == {v \in [1..Wd -> {Num(a) : a \in -1..MaxRecruitVal}] :
                          Cardinality({j \in 1..Wd : v[j] # Num(0)}) <= 1}
CenterLists(Wd) == UNION {[1..n -> RecruitVectors(Wd)] : n \in 0..MaxK}
Batches(Wd) == UNION {[1..n -> RecruitVectors(Wd)] : n \in 0..MaxBatch}

\* a caller holds a center list and a batch of samples drawn independently
\* of it, and is about to call cloud_member_recruitment_njit
InitRecruit ==
    /\ W \in 0..MaxW
    /\ Centers \in CenterLists(W)
    /\ data \in Batches(W)
    /\ Len(Centers) + Len(data) <= MaxL + 1
    /\ (Len(Centers) + Len(data)) * W <= MaxCells
    /\ ModeNumber = Len(Centers)
    /\ N = 1
    /\ pc = "recruit"
    /\ raised = "none"
    /\ ran = <<>>
    /\ X1 = NaN /\ AvD1 = <<>> /\ AvD2 = <<>> /\ new_data = <<>>
    /\ grid_trad = NaN /\ grid_angl = NaN
    /\ GD = <<>> /\ Uniquesample = <<>> /\ index = <<>>
    /\ BOX = <<>> /\ BOX_miu = <<>> /\ BOX_X = <<>> /\ BOX_S = <<>> /\ BOXMT = <<>>
    /\ NB = 0 /\ contador = 0
    /\ i = 0
    /\ B = <<>>
    /\ IDX = <<>>
    /\ SystemParams = <<>>
    /\ returned = <<>>
    /\ NoGrouping
    /\ NoHandDist
    /\ LathesInit

\* line 258: return B
RecruitReturn ==
    /\ pc = "recruit"
    /\ i = L
    /\ returned' = Append(returned, B)
    /\ pc' = "returned"
    /\ UNCHANGED <<lathesVars, handVars, groupVars, inVars, gridVars, densVars, boxVars, peakVars, raised, ran, B, i,
                   IDX, SystemParams>>

\* the caller calls the function a second time with the same arguments
RecruitAgain ==
    /\ pc = "returned"
    /\ Len(returned) = 1
    /\ B' = <<>>
    /\ i' = 0
    /\ ran' = <<>>
    /\ pc' = "recruit"
    /\ UNCHANGED <<outerVars, inVars, gridVars, densVars, boxVars, peakVars, raised, IDX, SystemParams>>

NextRecruit ==
    \/ RecruitStep
    \/ RecruitReturn
    \/ RecruitAgain

SpecRecruit == InitRecruit /\ [][NextRecruit]_vars

(* ---------------- chessboard_division_njit called on its own ----------- *)
\* sorted samples with components up to MaxBoxVal, far enough apart for a
\* sample to lie within the thresholds of two boxes
BoxVectors(Wd) == {v \in [1..Wd -> {Num(a) : a \in -1..MaxBoxVal}] :
                      Cardinality({j \in 1..Wd : v[j] # Num(0)}) <= 1}
BoxMatrices(Wd) == UNION {[1..n -> BoxVectors(Wd)] : n \in {m \in 1..MaxL : m * Wd <= MaxCells}}

\* the thresholds handed to the function, as radicands: grid_trad is the
\* root of 2 or of 5, grid_angl is 1/2
GridTradChoices == {Num(2), Num(5)}
GridAnglChoices == {Rat(1, 4)}

\* a caller holds a matrix of samples in descending order of the densities
\* 1/2, 1/3, ..., and two thresholds, and is about to call the function
InitChessboard ==
    /\ W \in 1..MaxW
    /\ Uniquesample \in BoxMatrices(W)
    /\ data = Uniquesample
    /\ GD = Tup([k \in 1..Len(Uniquesample) |-> Rat(1, k + 1)])
    /\ index = Tup([k \in 1..Len(Uniquesample) |-> k])
    /\ grid_trad \in GridTradChoices
    /\ grid_angl \in GridAnglChoices
    /\ N = 1
    /\ pc = "chessboard"
    /\ raised = "none"
    /\ ran = <<>>
    /\ X1 = NaN /\ AvD1 = <<>> /\ AvD2 = <<>> /\ new_data = <<>>
    /\ BOX = <<>> /\ BOX_miu = <<>> /\ BOX_X = <<>> /\ BOX_S = <<>> /\ BOXMT = <<>>
    /\ NB = 0 /\ contador = 0
    /\ i = 0
    /\ Centers = <<>> /\ ModeNumber = 0
    /\ B = <<>>
    /\ IDX = <<>>
    /\ SystemParams = <<>>
    /\ returned = <<>>
    /\ NoGrouping
    /\ NoHandDist
    /\ LathesInit

NextChessboard ==
    \/ ChessboardSeed
    \/ ChessboardStep
    \/ ChessboardReturn

SpecChessboard == InitChessboard /\ [][NextChessboard]_vars

(* ------------------------ hand_dist called on its own ------------------- *)
\* a caller holds a row XA and a matrix XB of the same width and is about to
\* call hand_dist
InitHandDist ==
    /\ W \in 0..MaxW
    /\ hd_XA \in Vectors(W)
    /\ hd_XB \in Matrices(W)
    /\ hd_distance = <<>>
    /\ data = <<>>
    /\ N = 1
    /\ pc = "hand_dist"
    /\ raised = "none"
    /\ ran = <<>>
    /\ X1 = NaN /\ AvD1 = <<>> /\ AvD2 = <<>> /\ new_data = <<>>
    /\ grid_trad = NaN /\ grid_angl = NaN
    /\ GD = <<>> /\ Uniquesample = <<>> /\ index = <<>>
    /\ BOX = <<>> /\ BOX_miu = <<>> /\ BOX_X = <<>> /\ BOX_S = <<>> /\ BOXMT = <<>>
    /\ NB = 0 /\ contador = 0
    /\ i = 0
    /\ Centers = <<>> /\ ModeNumber = 0
    /\ B = <<>>
    /\ IDX = <<>>
    /\ SystemParams = <<>>
    /\ returned = <<>>
    /\ NoGrouping
    /\ LathesInit

\* lines 123-140: the call raises or returns distance
HandDistCall ==
    /\ pc = "hand_dist"
    /\ IF HandDistRaises(W, hd_XB)
       THEN /\ Raise("ZeroDivisionError")
            /\ UNCHANGED hd_distance
       ELSE /\ hd_distance' = hand_dist(hd_XA, hd_XB)
            /\ pc' = "returned"
            /\ UNCHANGED raised
    /\ UNCHANGED <<returned, lathesVars, groupVars, hd_XA, hd_XB, inVars, gridVars, densVars, boxVars, peakVars,
                   ran, i, B, IDX, SystemParams>>

NextHandDist == HandDistCall

SpecHandDist == InitHandDist /\ [][NextHandDist]_vars

(* ------------------- LathesModel._grouping_algorithm -------------------- *)
\* line 523: self.SODA_IDX_ = self.SODA_output_['IDX']
SODA_IDX_ == IDX

RECURSIVE MaxOf(_)
MaxOf(s) == IF Len(s) = 1 THEN s[1]
            ELSE LET m == MaxOf(SubSeq(s, 1, Len(s) - 1))
                 IN  IF s[Len(s)] > m THEN s[Len(s)] ELSE m

\* line 528
n_DA_planes == MaxOf(SODA_IDX_)

\* lines 538-542: column 0 counts the samples of a cloud whose target is 0,
\* column 1 the others (c and g are 0-based)
n_IDs_per_gp(c, g) ==
    Cardinality({k \in 1..Len(target_) :
                    /\ SODA_IDX_[k] - 1 = c
                    /\ (g = 0) <=> (target_[k] = 0)})

\* line 544
n_tot_Id_per_DA(c) == Cardinality({k \in 1..Len(target_) : SODA_IDX_[k] - 1 = c})

\* line 549: Percent[i,0] as the exact quotient; float division, 0/0 is NaN
Percent(c) == RMul(RDiv(Num(n_IDs_per_gp(c, 0)), Num(n_tot_Id_per_DA(c))), Num(100))

\* line 549 in float64: the division and the multiplication each round to
\* nearest.  Among the counts 0 <= a <= n <= 25 these are the pairs <<a, n>>
\* for which the rounded (a / n) * 100 compares with a whole number
\* otherwise than the exact quotient does: (11 / 20) * 100 is
\* 55.00000000000001, (7 / 25) * 100 is 28.000000000000004 and
\* (14 / 25) * 100 is 56.00000000000001, each above the exact value
RoundedUp == {<<11, 20>>, <<7, 25>>, <<14, 25>>}

\* line 556: Percent[i,0] > self.percent_ for a whole-numbered percent_
PercentExceeds(c) ==
    \/ RGt(Percent(c), Num(percent_))
    \/ /\ REq(Percent(c), Num(percent_))
       /\ <<n_IDs_per_gp(c, 0), n_tot_Id_per_DA(c)>> \in RoundedUp

\* lines 556-561
decision(c) == IF PercentExceeds(c) THEN 0 ELSE 1

\* lines 557 and 560: the clouds counted in n_gp0 and in n_gp1
n_gp0 == Cardinality({c \in 0..(n_DA_planes - 1) : decision(c) = 0})
n_gp1 == Cardinality({c \in 0..(n_DA_planes - 1) : decision(c) # 0})

\* label vectors SODA returns in which every label of 1..ModeNumber is used,
\* ModeNumber being at most MaxK
LabelVectors ==
    UNION {{v \in [1..n -> 1..MaxK] : {v[k] : k \in 1..n} = 1..MaxOf(v)} : n \in 1..MaxSamples}

\* a label vector SODA returns in which a label of 1..ModeNumber is not used:
\* IDX for StaticData = [[10,11,2],[3,4,0],[9,12,0],[50,55,10],[2,2,1]] and
\* GridSize 3.  The samples [3,4,0] and [9,12,0] share a box of mean [6,8,0];
\* the four boxes are four centers (lines 224-232), and the scan of lines
\* 250-256 finds [3,4,0] nearest to center [2,2,1] and [9,12,0] nearest to
\* center [10,11,2], so that center 3, [6,8,0], is the label of no sample
GapVectors == {<<4, 2, 4, 1, 2>>}

\* the label vectors of one cloud of up to MaxCloud samples
OneCloud == {[k \in 1..n |-> 1] : n \in 1..MaxCloud}

\* the targets of a training set of n samples: any for a small set, those of
\* target 0 first for a larger one
Targets(n) ==
    IF n <= MaxSamples THEN [1..n -> {0, 1}]
    ELSE {[k \in 1..n |-> IF k <= a THEN 0 ELSE 1] : a \in 0..n}

\* the purity thresholds the model is built with
PercentChoices == {50, 55, 70}

\* fit has run _soda on a training set with two-class targets and is about to
\* call _grouping_algorithm (lines 671-672)
InitGrouping ==
    /\ IDX \in LabelVectors \cup OneCloud \cup GapVectors
    /\ target_ \in Targets(Len(IDX))
    /\ percent_ \in PercentChoices
    /\ classifiers_label_ = <<>>
    /\ GA_results_ = NoResults
    /\ pc = "grouping"
    /\ W = 0
    /\ data = <<>>
    /\ N = 1
    /\ raised = "none"
    /\ ran = <<>>
    /\ X1 = NaN /\ AvD1 = <<>> /\ AvD2 = <<>> /\ new_data = <<>>
    /\ grid_trad = NaN /\ grid_angl = NaN
    /\ GD = <<>> /\ Uniquesample = <<>> /\ index = <<>>
    /\ BOX = <<>> /\ BOX_miu = <<>> /\ BOX_X = <<>> /\ BOX_S = <<>> /\ BOXMT = <<>>
    /\ NB = 0 /\ contador = 0
    /\ i = 0
    /\ Centers = <<>> /\ ModeNumber = 0
    /\ B = <<>>
    /\ SystemParams = <<>>
    /\ returned = <<>> /\ NoHandDist
    /\ LathesInit

\* lines 525-577
GroupingAlgorithm ==
    /\ pc = "grouping"
    /\ classifiers_label_' = Tup([k \in 1..Len(SODA_IDX_) |-> decision(SODA_IDX_[k] - 1)])
    /\ GA_results_' = [Data_Clouds |-> n_DA_planes,
                       Good_Tools_Groups |-> n_gp0,
                       Worn_Tools_Groups |-> n_gp1,
                       Samples |-> Len(SODA_IDX_)]
    /\ pc' = "returned"
    /\ UNCHANGED <<returned, handVars, lathesVars, target_, percent_, inVars, gridVars,
                   densVars, boxVars, peakVars, raised, ran, i, B, IDX, SystemParams>>

NextGrouping == GroupingAlgorithm

SpecGrouping == InitGrouping /\ [][NextGrouping]_vars

(* ------------------------------ LathesModel ----------------------------- *)
sodaVars == <<inVars, pc, raised, ran, gridVars, densVars, boxVars, i, peakVars,
              B, IDX, SystemParams>>

hyperVars == <<N_PCs_, granularity_>>
testVars == <<X_test_selected_, X_test_projected_>>

\* one instance, just constructed; no call of the partitioning is under way
InitLathes ==
    /\ LathesInit
    /\ W = 0 /\ data = <<>> /\ N = 1
    /\ pc = "idle"
    /\ raised = "none"
    /\ ran = <<>>
    /\ X1 = NaN /\ AvD1 = <<>> /\ AvD2 = <<>> /\ new_data = <<>>
    /\ grid_trad = NaN /\ grid_angl = NaN
    /\ GD = <<>> /\ Uniquesample = <<>> /\ index = <<>>
    /\ BOX = <<>> /\ BOX_miu = <<>> /\ BOX_X = <<>> /\ BOX_S = <<>> /\ BOXMT = <<>>
    /\ NB = 0 /\ contador = 0
    /\ i = 0
    /\ Centers = <<>> /\ ModeNumber = 0
    /\ B = <<>>
    /\ IDX = <<>>
    /\ SystemParams = <<>>
    /\ returned = <<>>
    /\ NoGrouping
    /\ NoHandDist

FitStages == {"_normalization", "_tsfresh_extraction", "_tsfresh_selection",
              "_pca", "_soda", "_grouping_algorithm", "clf.fit"}
RefitStages == {"_pca", "_soda", "_grouping_algorithm", "clf.fit"}
PredictStages == {"_predict_normalization", "_predict_tsfresh_extraction",
                  "_predict_pca", "clf.predict"}

\* _pca: pca_scaler and pca fitted on the selected features of training set
\* X with n components
PcaFit(X, n) == [X |-> X, N_PCs |-> n]

\* clf.fit(self.X_projected_, self.classifiers_label_): the projection is
\* made by P, the labels by the partitioning at granularity g
ClfFit(P, g) == [pca |-> P, granularity |-> g]

\* variant of OneClass: the flag is set by a failed fit and never cleared
OneClassSticky(fitted) == one_class_ \/ ~fitted

\* lines 678-682 and 770-774: one_class_ after "try: clf.fit ... except:"
OneClass(fitted) == ~fitted

\* variant of FitIsCached: the stored features are never reused
FitIsCachedNever == FALSE

\* line 762: if self.already_fitted_
FitIsCached == already_fitted_

\* variant of PredictIsCached: the test asks for a stored projection
PredictIsCachedByData == X_test_projected_ # NoProjection

\* line 797: if self.already_tested_
PredictIsCached == already_tested_

\* clf.predict raises on a classifier that was never fitted, and on a matrix
\* whose number of columns is not the one the classifier was fitted with
ClfPredictRaises(c, proj) ==
    \/ c = NoFit
    \/ c.pca.N_PCs # proj.pca.N_PCs

\* lines 672-684 and 764-774: _pca, _soda, _grouping_algorithm and clf.fit on
\* the selected features of training set X, the stages in before having run.
\* _soda raises on the inputs SelfOrganisedDirectionAwareDataPartitioning
\* raises on; clf.fit raises or not, and its exception is caught: did then
\* holds "except", the handler having run.
FitTail(X, before) ==
    /\ pca' = PcaFit(X, N_PCs_)
    /\ \E soda_ok \in BOOLEAN :
           IF ~soda_ok
           THEN /\ outcome' = "raised"
                /\ did' = before \cup {"_pca"}
                /\ UNCHANGED <<clf, one_class_, already_fitted_>>
           ELSE \E fitted \in BOOLEAN :
                    /\ clf' = IF fitted THEN ClfFit(PcaFit(X, N_PCs_), granularity_) ELSE clf
                    /\ one_class_' = OneClass(fitted)
                    /\ already_fitted_' = TRUE
                    /\ did' = before \cup RefitStages \cup (IF fitted THEN {} ELSE {"except"})
                    /\ outcome' = "returned"

\* lines 657-686: fit(X, y)
FullFit(X) ==
    /\ X_selected_' = X
    /\ FitTail(X, FitStages \ RefitStages)

fit ==
    /\ pc = "idle"
    /\ \E X \in 1..MaxTrain : FullFit(X)
    /\ call' = "fit"
    /\ y_pred' = None
    /\ UNCHANGED <<sodaVars, returned, handVars, groupVars, hyperVars, testVars, already_tested_>>

\* lines 762-779
fit_after_tsfresh ==
    /\ pc = "idle"
    /\ \E X \in 1..MaxTrain :
           IF FitIsCached
           THEN /\ FitTail(X_selected_, {})
                /\ UNCHANGED X_selected_
           ELSE FullFit(X)
    /\ call' = "fit_after_tsfresh"
    /\ y_pred' = None
    /\ UNCHANGED <<sodaVars, returned, handVars, groupVars, hyperVars, testVars, already_tested_>>

\* lines 724-743: predict(X) on test set T
PredictBody(T) ==
    IF one_class_
    THEN /\ y_pred' = None
         /\ did' = {}
         /\ outcome' = "returned"
         /\ UNCHANGED <<testVars, already_tested_>>
    ELSE IF X_selected_ = 0
    THEN \* no scaler yet: AttributeError in _predict_normalization
         /\ outcome' = "raised"
         /\ did' = {}
         /\ y_pred' = None
         /\ UNCHANGED <<testVars, already_tested_>>
    ELSE LET sel == [X |-> T, train |-> X_selected_]
             proj == [sel |-> sel, pca |-> pca]
         IN  /\ X_test_selected_' = sel
             /\ X_test_projected_' = proj
             /\ IF ClfPredictRaises(clf, proj)
                THEN /\ outcome' = "raised"
                     /\ did' = PredictStages \ {"clf.predict"}
                     /\ y_pred' = None
                     /\ UNCHANGED already_tested_
                ELSE /\ y_pred' = [clf |-> clf, proj |-> proj]
                     /\ already_tested_' = TRUE
                     /\ did' = PredictStages
                     /\ outcome' = "returned"

predict ==
    /\ pc = "idle"
    /\ \E T \in 1..MaxTest : PredictBody(T)
    /\ call' = "predict"
    /\ UNCHANGED <<sodaVars, returned, handVars, groupVars, hyperVars, already_fitted_, one_class_, clf,
                   X_selected_, pca>>

\* lines 797-810
predict_after_tsfresh ==
    /\ pc = "idle"
    /\ \E T \in 1..MaxTest :
           IF PredictIsCached
           THEN /\ IF one_class_
                   THEN /\ y_pred' = None
                        /\ did' = {}
                        /\ outcome' = "returned"
                   ELSE IF ClfPredictRaises(clf, X_test_projected_)
                   THEN /\ outcome' = "raised"
                        /\ did' = {}
                        /\ y_pred' = None
                   ELSE /\ y_pred' = [clf |-> clf, proj |-> X_test_projected_]
                        /\ did' = {"clf.predict"}
                        /\ outcome' = "returned"
                /\ UNCHANGED <<testVars, already_tested_>>
           ELSE PredictBody(T)
    /\ call' = "predict_after_tsfresh"
    /\ UNCHANGED <<sodaVars, returned, handVars, groupVars, hyperVars, already_fitted_, one_class_, clf,
                   X_selected_, pca>>

\* lines 450-457
reset ==
    /\ pc = "idle"
    /\ already_fitted_' = FALSE
    /\ already_tested_' = FALSE
    /\ one_class_' = FALSE
    /\ call' = "reset"
    /\ did' = {}
    /\ outcome' = "returned"
    /\ y_pred' = None
    /\ UNCHANGED <<sodaVars, returned, handVars, groupVars, hyperVars, testVars, clf, X_selected_, pca>>

\* lines 832-836 with one key: 'N_PCs', 'granularity' or 'clf'; the value of
\* 'clf' is evaluated to a new classifier object
change_hyperparams ==
    /\ pc = "idle"
    /\ \/ /\ N_PCs_' \in 1..MaxPCs
          /\ UNCHANGED <<granularity_, clf>>
       \/ /\ granularity_' \in 1..MaxN
          /\ UNCHANGED <<N_PCs_, clf>>
       \/ /\ clf' = NoFit
          /\ UNCHANGED <<N_PCs_, granularity_>>
    /\ call' = "change_hyperparams"
    /\ did' = {}
    /\ outcome' = "returned"
    /\ y_pred' = None
    /\ UNCHANGED <<sodaVars, returned, handVars, groupVars, testVars, already_fitted_, already_tested_, one_class_,
                   X_selected_, pca>>

NextLathes ==
    \/ fit
    \/ fit_after_tsfresh
    \/ predict
    \/ predict_after_tsfresh
    \/ reset
    \/ change_hyperparams

SpecLathes == InitLathes /\ [][NextLathes]_vars

(* ------------------------------ claims --------------------------------- *)
RECURSIVE SumInts(_)
SumInts(s) == IF Len(s) = 0 THEN 0 ELSE s[Len(s)] + SumInts(SubSeq(s, 1, Len(s) - 1))

Stages == {ran[k] : k \in 1..Len(ran)}

IsZeroRow(v) == \A j \in 1..Len(v) : v[j] = Num(0)

NoZeroRow == \A r \in 1..L : ~IsZeroRow(data[r])

AllIdentical == \A a, b \in 1..L : data[a] = data[b]

\* grid_set has just returned its five values
GridReturned == pc = "density"

\* the number of sorted samples the aggregation pass has processed
Processed ==
    IF pc \in {"peaks", "recruit", "done"} \/ "peaks" \in Stages THEN L
    ELSE IF "chessboard" \in Stages THEN i
    ELSE 0

\* C1: after the first k sorted samples have been processed the member
\* counts of the boxes created so far add up to k, and to L once the pass
\* is over
C1_MemberCountSum == SumInts(BOX_S) = Processed

C1_Witness ==
    /\ pc = "chessboard_loop"
    /\ i = L
    /\ contador >= 2
    /\ \E q \in 1..contador : BOX_S[q] >= 2
    /\ ~IsNaN(BOXMT[1])

\* C2: on every valid input (L >= 1, W >= 1; here moreover without all-zero
\* rows) the call returns, and the labels it returns are L integers in 1..K
C2_LabelsInRange ==
    (L >= 1 /\ W >= 1 /\ NoZeroRow) =>
        /\ pc # "raised"
        /\ pc = "done" => /\ Len(IDX) = L
                          /\ \A k \in 1..Len(IDX) : IDX[k] \in 1..ModeNumber

\* C3: the number of centers never exceeds the number of boxes, and the
\* number of boxes never exceeds the number of samples: K <= B <= L
C3_CentersBoxesSamples ==
    /\ ModeNumber = Len(Centers)
    /\ contador = Len(BOX_miu)
    /\ ModeNumber <= contador
    /\ contador <= L

C3_Witness ==
    /\ pc = "done"
    /\ ModeNumber < contador
    /\ contador < L

\* C4: on one (here nonzero) point repeated L times the call completes
\* without error with exactly 1 box, exactly 1 center and every label equal
\* to 1
C4_SinglePoint ==
    (L >= 1 /\ W >= 1 /\ AllIdentical /\ NoZeroRow) =>
        /\ pc # "raised"
        /\ pc = "done" => /\ contador = 1
                          /\ ModeNumber = 1
                          /\ \A k \in 1..Len(IDX) : IDX[k] = 1

NonDegenerate ==
    /\ W >= 1
    /\ L >= 1
    /\ ~AllIdentical
    /\ \E r \in 1..L : ~IsZeroRow(data[r])

\* all samples point in the same direction: their unit vectors coincide
SameDirection == \A a, b \in 1..L : Normalized(data, W)[a] = Normalized(data, W)[b]

PolicyNormalized ==
    [r \in 1..L |-> IF IsZeroRow(data[r]) THEN [j \in 1..W |-> Num(1)]
                    ELSE Normalized(data, W)[r]]

\* C6: with one or more all-zero rows grid_set raises no error, sets exactly
\* those rows of the normalized matrix to 1, and the rest of the call
\* completes
C6_ZeroRowPolicy ==
    (W >= 1 /\ ~NoZeroRow) =>
        /\ pc # "raised"
        /\ GridReturned => new_data = PolicyNormalized

\* C7: on an empty matrix (L = 0 or W = 0) the call fails before a
\* downstream stage does its work: it never gets past density ranking and
\* never returns
C7_FailFast ==
    (L = 0 \/ W = 0) =>
        /\ pc \in {"grid_set", "density", "raised"}
        /\ Stages \subseteq {"grid_set", "density"}

\* the two proportionality statements of C9 for the granularity N of the
\* call and every larger granularity n2
ThresholdsScaleWithN ==
    \A n2 \in (N + 1)..(MaxN + 1) :
        LET trad2 == GridTrad(data, W, n2)
            angl2 == GridAngl(new_data, W, n2)
        IN  /\ RLe(trad2, grid_trad)
            /\ RLe(angl2, grid_angl)
            /\ REq(RMul(Num(n2 * n2), trad2), RMul(Num(N * N), grid_trad))
            /\ REq(RMul(Num(n2 * n2), angl2), RMul(Num(N * N), grid_angl))

C10_NearestCenterLowestIndex ==
    pc \in {"recruit", "done"} =>
        \A k \in 1..Len(B) :
            LET d == hand_dist(data[k], Centers)
                c == B[k] + 1
            IN  /\ c \in 1..Len(Centers)
                /\ \A e \in 1..Len(Centers) : ~SumRootLt(d[e], d[c])
                /\ \A e \in 1..(c - 1) : SumRootLt(d[c], d[e])
                /\ pc = "done" => IDX[k] = c

C10_Witness ==
    /\ pc = "done"
    /\ index # [k \in 1..L |-> k]
    /\ \E k \in 1..L : IDX[k] >= 2
    /\ \E k \in 1..L : \E c, e \in 1..Len(Centers) :
           LET d == hand_dist(data[k], Centers)
           IN  /\ c < e
               /\ IDX[k] = c
               /\ ~SumRootLt(d[c], d[e])
               /\ ~SumRootLt(d[e], d[c])

\* C11: a call of cloud_member_recruitment_njit on its own leaves the center
\* list and the batch as they were; every sample's label is the label a call
\* on that sample alone gives, so that reordering the batch reorders the
\* labels the same way; and a second call with the same arguments returns
\* what the first returned
C11_RecruitmentRepeatable ==
    /\ [](pc \in {"recruit", "returned"} =>
            /\ \A k \in 1..Len(B) :
                   B[k] = cloud_member_recruitment_njit(Centers, <<data[k]>>)[1]
            /\ pc = "returned" =>
                   \A p \in Perms(L) :
                       cloud_member_recruitment_njit(Centers, [k \in 1..L |-> data[p[k]]])
                           = [k \in 1..L |-> B[p[k]]]
            /\ \A c \in 1..Len(returned) : returned[c] = returned[1])
    /\ [][Centers' = Centers /\ data' = data]_vars

C11_Witness ==
    /\ pc = "returned"
    /\ Len(returned) = 2
    /\ returned[2] = returned[1]
    /\ L = 2
    /\ data[1] # data[2]
    /\ B[1] = 1
    /\ B[2] = 0

\* the keys of the summary table under which one float is stored, and those
\* under which a vector of floats is stored
FloatKeys == {"XM"}
FloatVectorKeys == {"AvM", "AvA"}

\* the summary table holds the value v under one of the given keys
Exposes(keys, v) == \E key \in keys \cap DOMAIN SystemParams : SystemParams[key] = v

\* C13: the value returned exposes, besides the labels and the center list,
\* a summary table with the per-box means, member counts and accumulated
\* density masses, the box count, both thresholds, the global mean and the
\* mean squared norm
C13_SummaryTable ==
    pc = "done" =>
        /\ Len(IDX) = L
        /\ Exposes({"BOX_miu"}, BOX_miu)
        /\ Exposes({"BOX_S"}, BOX_S)
        /\ Exposes({"NB"}, contador)
        /\ Exposes({"AvM"}, AvD1)
        /\ Exposes({"XM"}, X1)
        /\ Exposes(FloatVectorKeys, BOXMT)
        /\ Exposes(FloatKeys, grid_trad)
        /\ Exposes(FloatKeys, grid_angl)

\* the stages of the latest call, the exception handler left aside
Stagesdone == did \ {"except"}

\* C14: a fit_after_tsfresh call that returns on a model not fitted (or
\* reset) has run the complete fit; on a fitted model it has run PCA, the
\* partitioning, the grouping and the classifier fit only, on the stored
\* selected features and with the current hyperparameters; in both cases
\* already_fitted_ is True afterwards
C14_FitAfterTsfresh ==
    /\ []((call = "fit_after_tsfresh" /\ outcome = "returned") =>
             /\ already_fitted_
             /\ pca = PcaFit(X_selected_, N_PCs_)
             /\ ~one_class_ => clf = ClfFit(pca, granularity_))
    /\ [][(call' = "fit_after_tsfresh" /\ outcome' = "returned") =>
             IF already_fitted_
             THEN /\ Stagesdone' = RefitStages
                  /\ X_selected_' = X_selected_
             ELSE Stagesdone' = FitStages]_vars

C14_Witness ==
    /\ call = "fit_after_tsfresh"
    /\ outcome = "returned"
    /\ did = RefitStages
    /\ already_tested_
    /\ N_PCs_ = 2
    /\ granularity_ = 2
    /\ clf = ClfFit(PcaFit(X_selected_, 2), 2)

\* C15: right after reset() the three flags are False; a fit_after_tsfresh
\* call that follows runs the complete fit, and a predict_after_tsfresh call
\* that follows takes the path of predict, feature extraction included, and
\* does not classify the stored projection (on a model that was never
\* fitted that path raises at its first stage)
C15_Reset ==
    /\ [](call = "reset" => (~already_fitted_ /\ ~already_tested_ /\ ~one_class_))
    /\ [][(call = "reset" /\ call' = "fit_after_tsfresh" /\ outcome' = "returned") =>
             Stagesdone' = FitStages]_vars
    /\ [][(call = "reset" /\ call' = "predict_after_tsfresh") =>
             IF X_selected_ = 0
             THEN outcome' = "raised" /\ did' = {}
             ELSE /\ PredictStages \ {"clf.predict"} \subseteq did'
                  /\ X_test_projected_' = [sel |-> X_test_selected_', pca |-> pca]
                  /\ outcome' = "returned" =>
                        /\ did' = PredictStages
                        /\ y_pred' = [clf |-> clf, proj |-> X_test_projected_']]_vars

C15_Witness ==
    /\ call = "predict_after_tsfresh"
    /\ outcome = "returned"
    /\ did = PredictStages
    /\ ~already_fitted_
    /\ already_tested_
    /\ N_PCs_ = 2

\* C16: a predict_after_tsfresh call on a model that has predicted before,
\* and whose classifier is fitted on the current PCA, returns the predictions
\* of the current classifier on the last-predicted data set projected with
\* the current PCA, and does not run feature extraction
C16_PredictAfterCurrent ==
    [][(/\ already_tested_
        /\ ~one_class_
        /\ clf = ClfFit(pca, granularity_)
        /\ call' = "predict_after_tsfresh") =>
           /\ outcome' = "returned"
           /\ y_pred' = [clf |-> clf, proj |-> [sel |-> X_test_selected_, pca |-> pca]]
           /\ "_predict_tsfresh_extraction" \notin did']_vars

\* C17: after a fit or fit_after_tsfresh call that returns, one_class_ is
\* True exactly if the classifier fit of that call raised; while one_class_
\* is True, predict and predict_after_tsfresh return nothing, leave
\* already_tested_ as it is and leave the stored test data as they are
C17_OneClass ==
    /\ []((call \in {"fit", "fit_after_tsfresh"} /\ outcome = "returned") =>
             /\ "clf.fit" \in did
             /\ one_class_ <=> "except" \in did)
    /\ [][(one_class_ /\ call' \in {"predict", "predict_after_tsfresh"}) =>
             /\ y_pred' = None
             /\ outcome' = "returned"
             /\ UNCHANGED <<already_tested_, X_test_selected_, X_test_projected_>>]_vars

C17_Witness ==
    /\ call = "predict_after_tsfresh"
    /\ one_class_
    /\ already_tested_
    /\ y_pred = None
    /\ X_test_projected_.pca # pca

\* Globaldensity_Calculator has returned
Ranked == pc = "chessboard" \/ "chessboard" \in Stages

\* C18: the samples Globaldensity_Calculator returns are the input rows
\* reordered, no sample is followed by one of larger global density, the
\* density returned at a position is that of the sample at that position,
\* and the aggregation pass seeds box 0 with the first, highest-density
\* sample and starts every later box from a sample it has consumed
C18_DensityOrder ==
    Ranked =>
        /\ Len(index) = L
        /\ {index[k] : k \in 1..L} = 1..L
        /\ Uniquesample = Tup([k \in 1..L |-> data[index[k]]])
        /\ Len(GD) = L
        /\ pc = "chessboard" =>
              LET density == GlobalDensity(data, W)
              IN  GD = Tup([k \in 1..L |-> density[index[k]]])
        /\ \A k \in 1..(L - 1) : ~RLt(GD[k], GD[k + 1])
        /\ contador >= 1 =>
              /\ BOX[1] = Uniquesample[1]
              /\ BOXMT[1] = GD[1] \/ BOX_S[1] > 1
              /\ \A k \in 1..L : ~RLt(GD[1], GD[k])
              /\ \A q \in 1..contador : \E k \in 1..Processed : BOX[q] = Uniquesample[k]

C18_Witness ==
    /\ pc = "chessboard_loop"
    /\ L = 3
    /\ i = 2
    /\ index = <<2, 3, 1>>
    /\ RLt(GD[3], GD[2])
    /\ RLt(GD[2], GD[1])

\* the step is one iteration of the aggregation loop that did not raise
AggregationStep ==
    /\ pc = "chessboard_loop"
    /\ i < L
    /\ i' = i + 1

\* the boxes whose current mean is nearer to the sample being processed than
\* both thresholds, strictly
CandidateBoxes ==
    {q \in 1..contador :
        LET d == HandDistRow(Uniquesample[i + 1], BOX_miu[q])
        IN  RLt(d[1], grid_trad) /\ RLt(d[2], grid_angl)}

Absorbed ==
    \E q \in 1..contador : /\ BOX_S'[q] = BOX_S[q] + 1
                            /\ \A e \in 1..contador \ {q} : BOX_S'[e] = BOX_S[e]
                            /\ contador' = contador

Spawned ==
    /\ contador' = contador + 1
    /\ NB' = NB + 1
    /\ \A e \in 1..contador : /\ BOX_S'[e] = BOX_S[e]
                               /\ BOX_miu'[e] = BOX_miu[e]
                               /\ BOX_X'[e] = BOX_X[e]
                               /\ BOXMT'[e] = BOXMT[e]
                               /\ BOX'[e] = BOX[e]

\* C19: for each sample after the first, a box is spawned exactly if no
\* existing box has its mean strictly nearer than both thresholds; the
\* spawned box has the sample as mean and seed, count 1, the sample's squared
\* norm and the sample's global density; exactly one of spawn and absorb
\* happens
C19_SpawnIffNoCandidate ==
    [][AggregationStep =>
          LET x == Uniquesample[i + 1]
          IN  /\ Spawned <=> CandidateBoxes = {}
              /\ Absorbed <=> ~Spawned
              /\ Spawned => /\ BOX'[contador'] = x
                            /\ BOX_miu'[contador'] = x
                            /\ BOX_S'[contador'] = 1
                            /\ BOX_X'[contador'] = SqNorm(x)
                            /\ BOXMT'[contador'] = GD[i + 1]]_vars

C19_Witness ==
    /\ pc = "chessboard_loop"
    /\ i = L
    /\ L = 3
    /\ contador = 2
    /\ BOX_S = <<1, 2>>
    /\ BOX[2] = Uniquesample[2]
    /\ RGt(BOXMT[2], GD[2])

\* d_euclid/grid_trad + d_angular/grid_angl between the sample being
\* processed and the mean of box q, as the pair of the two radicands
CombinedDistance(q) ==
    LET d == HandDistRow(Uniquesample[i + 1], BOX_miu[q])
    IN  <<RDiv(d[1], grid_trad), RDiv(d[2], grid_angl)>>

\* C20: a sample with candidate boxes is absorbed by the candidate at
\* minimal combined distance, the lowest index among several; the count of
\* that box becomes n = count + 1, its mean mean*(n-1)/n + sample/n, its
\* sumSqNorm sumSqNorm*(n-1)/n + |sample|^2/n, and its density mass grows by
\* the sample's global density
C20_AbsorbNearest ==
    [][(AggregationStep /\ CandidateBoxes # {}) =>
          \E q \in CandidateBoxes :
              LET x == Uniquesample[i + 1]
                  n == BOX_S[q] + 1
                  w == RDiv(Num(n - 1), Num(n))
              IN  /\ \A e \in CandidateBoxes : ~SumRootLt(CombinedDistance(e), CombinedDistance(q))
                  /\ \A e \in CandidateBoxes : e < q => SumRootLt(CombinedDistance(q), CombinedDistance(e))
                  /\ BOX_S' = [BOX_S EXCEPT ![q] = n]
                  /\ BOX_miu' = [BOX_miu EXCEPT ![q] =
                         [j \in 1..W |-> RAdd(RMul(BOX_miu[q][j], w), RDiv(x[j], Num(n)))]]
                  /\ BOX_X' = [BOX_X EXCEPT ![q] = RAdd(RMul(BOX_X[q], w), RDiv(SqNorm(x), Num(n)))]
                  /\ BOXMT' = [BOXMT EXCEPT ![q] = RAdd(BOXMT[q], GD[i + 1])]
                  /\ UNCHANGED <<BOX, NB, contador>>]_vars

\* the third sample was within the thresholds of both boxes and nearer to
\* the second, which absorbed it
C20_Witness ==
    /\ pc = "chessboard_loop"
    /\ i = L
    /\ L = 3
    /\ contador = 2
    /\ BOX_S = <<1, 2>>
    /\ LET d == hand_dist(Uniquesample[3], BOX)
       IN  /\ RLt(d[1][1], grid_trad) /\ RLt(d[1][2], grid_angl)
           /\ RLt(d[2][1], d[1][1])
    /\ BOX_miu[2] # BOX[2]
    /\ BOX_X[2] # SqNorm(BOX[2])
    /\ BOXMT[2] = RAdd(GD[2], GD[3])

\* the rows of the box table other than row q are as they were
OthersKept(q) ==
    \A e \in (1..contador) \ {q} : /\ BOX_miu'[e] = BOX_miu[e]
                                    /\ BOX_S'[e] = BOX_S[e]
                                    /\ BOX_X'[e] = BOX_X[e]
                                    /\ BOXMT'[e] = BOXMT[e]

\* C21: processing one sample changes at most one box: an absorption leaves
\* every box but the absorbing one as it was, a spawn leaves every existing
\* box as it was; at every step of the call the number of boxes does not
\* decrease and every box keeps the seed it was created with
C21_OneBoxPerSample ==
    [][/\ contador' >= contador
       /\ NB' >= NB
       /\ \A q \in 1..contador : BOX'[q] = BOX[q]
       /\ AggregationStep =>
              \/ /\ contador' = contador
                 /\ \E q \in 1..contador : OthersKept(q)
              \/ /\ contador' = contador + 1
                 /\ OthersKept(contador + 1)
                 /\ BOX'[contador + 1] = Uniquesample[i + 1]]_vars

\* the third sample was absorbed by the second box, and the first box is as
\* its seed made it
C21_Witness ==
    /\ pc = "chessboard_loop"
    /\ i = L
    /\ contador = 2
    /\ BOX_S = <<1, 2>>
    /\ BOX_miu[2] # BOX[2]
    /\ BOX_miu[1] = BOX[1]
    /\ BOX_X[1] = SqNorm(BOX[1])
    /\ BOXMT[1] = GD[1]
    /\ BOX[2] = Uniquesample[2]

\* a step of peak detection that examines box i + 1 and goes on
PeakExamined ==
    /\ pc = "peaks"
    /\ i < Len(BOX_miu)
    /\ i' = i + 1

\* the boxes nearer to box q than twice both thresholds, strictly
Neighbourhood(q) ==
    {j \in 1..Len(BOX_miu) :
        LET d == HandDistRow(BOX_miu[q], BOX_miu[j])
        IN  /\ RLt(d[1], RMul(Num(4), grid_trad))
            /\ RLt(d[2], RMul(Num(4), grid_angl))}

\* no box of the neighbourhood of q has a density mass above that of q
IsPeak(q) == \A j \in Neighbourhood(q) : ~RGt(BOXMT[j], BOXMT[q])

\* C22: a box that peak detection examines becomes a center exactly if no
\* box within twice both thresholds of it has a strictly greater density
\* mass, so that neighbours tied at the greatest mass are both kept; the
\* center is the mean of the box, appended after the centers of the boxes of
\* lower index
C22_PeakIffNoGreaterNeighbour ==
    [][PeakExamined =>
          IF IsPeak(i + 1)
          THEN /\ Centers' = Append(Centers, BOX_miu[i + 1])
               /\ ModeNumber' = ModeNumber + 1
          ELSE UNCHANGED <<Centers, ModeNumber>>]_vars

\* C23: on a valid input (L >= 1, W >= 1, no all-zero row) every box of the
\* table the aggregation pass hands to peak detection lies within twice both
\* thresholds of itself, so that no neighbourhood is empty
C23_OwnNeighbourhood ==
    (L >= 1 /\ W >= 1 /\ NoZeroRow /\ pc = "peaks") =>
        \A q \in 1..Len(BOX_miu) : q \in Neighbourhood(q)

\* dot(a, b) / (|a| |b|)
CosineSimilarity(a, b) ==
    RDiv(SumSeq(Tup([j \in 1..Len(a) |-> RMul(a[j], b[j])])),
         RMul(RSqrt(SqNorm(a)), RSqrt(SqNorm(b))))

\* C24 as stated: the square of the first component is the sum of the
\* squared differences, and the fourth power of the second component, the
\* square of the radicand it is carried as, equals 1 - cosine similarity
C24_FourthRootOfOneMinusCos ==
    pc = "returned" =>
        \A k \in 1..Len(hd_XB) :
            /\ hd_distance[k][1] = SqNorm(Tup([j \in 1..W |-> RSub(hd_XA[j], hd_XB[k][j])]))
            /\ ~IsNaN(CosineSimilarity(hd_XA, hd_XB[k])) =>
                   RSq(hd_distance[k][2]) = RSub(Num(1), CosineSimilarity(hd_XA, hd_XB[k]))

\* C24: hand_dist returns one pair per row of XB; the square of the first
\* component is the sum of the squared differences (the first component is
\* the Euclidean distance); the square of the second component equals
\* |1 - cosine similarity|, the second component being NaN when XA or the
\* row is all-zero; the arguments are left as they were
C24_SquareRootOfOneMinusCos ==
    /\ [](pc = "returned" =>
            /\ Len(hd_distance) = Len(hd_XB)
            /\ \A k \in 1..Len(hd_XB) :
                   LET omc == RSub(Num(1), CosineSimilarity(hd_XA, hd_XB[k]))
                   IN  /\ hd_distance[k][1] = SqNorm(Tup([j \in 1..W |-> RSub(hd_XA[j], hd_XB[k][j])]))
                       /\ (IsZeroRow(hd_XA) \/ IsZeroRow(hd_XB[k])) <=> IsNaN(hd_distance[k][2])
                       /\ ~IsNaN(hd_distance[k][2]) =>
                              \/ hd_distance[k][2] = omc
                              \/ hd_distance[k][2] = RSub(Num(0), omc))
    /\ [][hd_XA' = hd_XA /\ hd_XB' = hd_XB]_vars

\* a row opposite to XA: 1 - cos = 2, the second component is the square
\* root of 2 and its fourth power is 4
C24_Witness ==
    /\ pc = "returned"
    /\ \E k \in 1..Len(hd_XB) : /\ hd_distance[k][2] = Num(2)
                              /\ CosineSimilarity(hd_XA, hd_XB[k]) = Num(-1)
                              /\ hd_distance[k][1] # Num(0)

\* the samples of cloud c, and those among them whose target is 0
CloudMembers(c) == {k \in 1..Len(IDX) : IDX[k] = c}
CloudAdequate(c) == {k \in CloudMembers(c) : target_[k] = 0}

\* strictly more than percent_ percent of the samples of cloud c have target 0
Pure(c) == 100 * Cardinality(CloudAdequate(c)) > percent_ * Cardinality(CloudMembers(c))

\* C25: once _grouping_algorithm has returned, the label of every sample is
\* 0 if strictly more than percent_ percent of the samples of its cloud have
\* target 0 and 1 otherwise; Good_Tools_Groups counts the clouds of
\* 1..max(SODA_IDX_) decided 0 and Worn_Tools_Groups the others, so that
\* their sum is Data_Clouds; Samples is the number of labels
C25_PurityDecision ==
    pc = "returned" =>
        /\ Len(classifiers_label_) = Len(IDX)
        /\ \A k \in 1..Len(IDX) : classifiers_label_[k] = IF Pure(IDX[k]) THEN 0 ELSE 1
        /\ GA_results_.Data_Clouds = MaxOf(IDX)
        /\ GA_results_.Good_Tools_Groups = Cardinality({c \in 1..MaxOf(IDX) : Pure(c)})
        /\ GA_results_.Worn_Tools_Groups = Cardinality({c \in 1..MaxOf(IDX) : ~Pure(c)})
        /\ GA_results_.Good_Tools_Groups + GA_results_.Worn_Tools_Groups = GA_results_.Data_Clouds
        /\ GA_results_.Samples = Len(classifiers_label_)

\* the samples processed so far that the assignment f gives to box q
MembersOf(f, q) == {k \in 1..i : f[k] = q}

\* the sum of the values v[k] over the samples k of M
SumOfMembers(v, M) == SumSeq(Tup([k \in 1..Len(v) |-> IF k \in M THEN v[k] ELSE Num(0)]))

\* the box table is that of the assignment f of processed samples to boxes
BoxesOf(f) ==
    \A q \in 1..contador :
        LET M == MembersOf(f, q)
            n == Cardinality(M)
        IN  /\ M # {}
            /\ \E k \in M : BOX[q] = Uniquesample[k] /\ \A e \in M : k <= e
            /\ BOX_S[q] = n
            /\ \A j \in 1..W :
                   REq(RMul(Num(n), BOX_miu[q][j]),
                       SumOfMembers(Tup([k \in 1..i |-> Uniquesample[k][j]]), M))
            /\ REq(RMul(Num(n), BOX_X[q]),
                   SumOfMembers(Tup([k \in 1..i |-> SqNorm(Uniquesample[k])]), M))

\* C26: at every step of the aggregation pass the processed samples are
\* divided among the boxes, each sample in exactly one box, so that every
\* box holds its seed, its memberCount is the number of its samples, its
\* mean is their arithmetic mean and its sumSqNorm is the arithmetic mean of
\* their squared norms
C26_BoxStatistics ==
    pc = "chessboard_loop" =>
        /\ Len(BOX) = contador /\ Len(BOX_miu) = contador
        /\ Len(BOX_S) = contador /\ Len(BOX_X) = contador
        /\ \E f \in [1..i -> 1..contador] : BoxesOf(f)

\* one box has absorbed all three samples and its mean has left its seed
C26_Witness ==
    /\ pc = "chessboard_loop"
    /\ i = L
    /\ BOX_S = <<3>>
    /\ BOX_miu[1] # BOX[1]
    /\ BOX_X[1] # SqNorm(BOX[1])

\* C27: at every step of the aggregation pass the density masses of the
\* boxes add up to the global densities of the samples processed so far and
\* NB is the number of boxes; the tables the pass returns have NB rows and
\* their masses add up to the global densities of all L samples
C27_MassConserved ==
    /\ pc = "chessboard_loop" =>
           /\ REq(SumSeq(BOXMT), SumSeq(SubSeq(GD, 1, i)))
           /\ NB = contador
           /\ NB = Len(BOXMT)
    /\ pc = "peaks" =>
           /\ REq(SumSeq(BOXMT), SumSeq(GD))
           /\ Len(GD) = L
           /\ NB = Len(BOX) /\ NB = Len(BOX_miu) /\ NB = Len(BOX_X)
           /\ NB = Len(BOX_S) /\ NB = Len(BOXMT)

\* the pass has returned two boxes for three samples, the first of which
\* holds the densities of the first and the third sample
C27_Witness ==
    /\ pc = "peaks"
    /\ L = 3
    /\ NB = 2
    /\ BOXMT[1] = RAdd(GD[1], GD[3])
    /\ BOXMT[2] = GD[2]

\* the boxes no box has a greater density mass than
HeaviestBoxes == {q \in 1..Len(BOXMT) : \A e \in 1..Len(BOXMT) : ~RLt(BOXMT[q], BOXMT[e])}

\* C28: on a matrix of at least one row and one column without an all-zero
\* row, peak detection, once started, returns: it hands member assignment at
\* least one center, the mean of a box of the greatest density mass among
\* them
C28_AtLeastOneCenter ==
    (L >= 1 /\ W >= 1 /\ NoZeroRow /\ "peaks" \in Stages) =>
        /\ pc # "raised"
        /\ pc = "recruit" =>
               /\ Len(Centers) >= 1
               /\ ModeNumber = Len(Centers)
               /\ \E q \in HeaviestBoxes : \E k \in 1..Len(Centers) : Centers[k] = BOX_miu[q]

\* C29: when _grouping_algorithm has run on the labels SODA returned, every
\* cluster id of 1..max(SODA_IDX_) is the label of at least one sample, so
\* that no member total the per-cloud counts are divided by is zero and no
\* percentage is NaN
C29_EveryClusterHasMembers ==
    pc = "returned" =>
        \A c \in 0..(n_DA_planes - 1) :
            /\ \E r \in 1..Len(SODA_IDX_) : SODA_IDX_[r] = c + 1
            /\ n_tot_Id_per_DA(c) > 0
            /\ ~IsNaN(Percent(c))

====
